---------------------------- MODULE Spec2Model ----------------------------
(***************************************************************************)
(* Catalog extraction scripts of entech-chat:                              *)
(*   excel_to_json.py, pdf_to_json.py, extract_catalog.py,                 *)
(*   extract_catalog_base64.py, extract_full_kp.py.                        *)
(*                                                                         *)
(* A text is a sequence of characters; a character is a one-element name.  *)
(* ASCII characters are named by themselves, Cyrillic letters by a         *)
(* transliteration ("cy_v" is the small letter ve, "CY_V" the capital),    *)
(* "MULT" is the multiplication sign, "LF" the line feed.                  *)
(* A nullable value is a sequence of length 0 (None) or 1 (the value).     *)
(***************************************************************************)
EXTENDS Integers, Sequences, FiniteSets, TLC

VARIABLES script, pc, error, source, workbook, sheetIdx, pdfPages, pageIdx,
          sheetA, anchors, row, image, files, catalog, outJson, kpResult

vars == <<script, pc, error, source, workbook, sheetIdx, pdfPages, pageIdx,
          sheetA, anchors, row, image, files, catalog, outJson, kpResult>>

(* ------------------------------ bounds -------------------------------- *)
MaxFrags == 3
MaxRows == 2
MaxAnchors == 2

(* --------------------------- nullable values --------------------------- *)
None == <<>>
Some(v) == <<v>>
IsNone(o) == Len(o) = 0
Get(o) == o[1]

Min(S) == CHOOSE m \in S : \A n \in S : m <= n

(* ------------------------------ characters ----------------------------- *)
UpperChars ==
  <<"A","B","C","D","E","F","G","H","I","J","K","L","M","N","O","P","Q","R",
    "S","T","U","V","W","X","Y","Z",
    "CY_A","CY_V","CY_G","CY_D","CY_E","CY_ZH","CY_Z","CY_I","CY_J","CY_K",
    "CY_L","CY_M","CY_N","CY_O","CY_P","CY_R","CY_S","CY_T","CY_U","CY_F",
    "CY_CH","CY_SH","CY_SHCH","CY_Y">>

LowerChars ==
  <<"a","b","c","d","e","f","g","h","i","j","k","l","m","n","o","p","q","r",
    "s","t","u","v","w","x","y","z",
    "cy_a","cy_v","cy_g","cy_d","cy_e","cy_zh","cy_z","cy_i","cy_j","cy_k",
    "cy_l","cy_m","cy_n","cy_o","cy_p","cy_r","cy_s","cy_t","cy_u","cy_f",
    "cy_ch","cy_sh","cy_shch","cy_y">>

Digits == <<"0","1","2","3","4","5","6","7","8","9">>
SpaceChars == {" ", "TAB", "LF"}
PunctChars == {"-", ",", ".", ":", "/", "MULT"}

Range(s) == {s[i] : i \in 1..Len(s)}

Chars == Range(UpperChars) \cup Range(LowerChars) \cup Range(Digits)
           \cup SpaceChars \cup PunctChars

\* str.lower() / str.upper() on one character
LowerMap ==
  [c \in Chars |->
     IF c \in Range(UpperChars)
       THEN LowerChars[CHOOSE i \in 1..Len(UpperChars) : UpperChars[i] = c]
       ELSE c]

UpperMap ==
  [c \in Chars |->
     IF c \in Range(LowerChars)
       THEN UpperChars[CHOOSE i \in 1..Len(LowerChars) : LowerChars[i] = c]
       ELSE c]

DigitVal ==
  [c \in Range(Digits) |-> (CHOOSE i \in 1..10 : Digits[i] = c) - 1]

StrLower(s) == [i \in 1..Len(s) |-> LowerMap[s[i]]]
StrUpper(s) == [i \in 1..Len(s) |-> UpperMap[s[i]]]

IsDigit(c) == c \in Range(Digits)
IsSpace(c) == c \in SpaceChars
\* \w of the re module: letters, digits, underscore
IsWord(c) == c \notin (SpaceChars \cup PunctChars)

\* str.strip()
Strip(s) ==
  LET keep == {i \in 1..Len(s) : ~IsSpace(s[i])}
  IN  IF keep = {} THEN <<>>
      ELSE SubSeq(s, Min(keep), CHOOSE m \in keep : \A n \in keep : n <= m)

\* s[:n]
Prefix(s, n) == SubSeq(s, 1, IF Len(s) < n THEN Len(s) ELSE n)

\* the literal lit (given in lower case) occurs in low at position k
LitAt(low, k, lit) ==
  /\ k >= 1
  /\ k + Len(lit) - 1 <= Len(low)
  /\ \A n \in 1..Len(lit) : low[k + n - 1] = lit[n]

\* `lit in s` for strings already folded to one case
Contains(low, lit) == \E k \in 1..(Len(low) + 1) : LitAt(low, k, lit)

\* position after the longest run of digits starting at i (i when there is none)
DigitsEnd(s, i) ==
  LET stop == {j \in i..Len(s) : ~IsDigit(s[j])}
  IN  IF stop = {} THEN Len(s) + 1 ELSE Min(stop)

\* optional single whitespace (\s?) at position j
SkipOneSpace(s, j) == IF j <= Len(s) /\ IsSpace(s[j]) THEN j + 1 ELSE j

\* any run of whitespace (\s*) at position j
SkipSpaces(s, j) ==
  LET stop == {k \in j..Len(s) : ~IsSpace(s[k])}
  IN  IF stop = {} THEN Len(s) + 1 ELSE Min(stop)

RECURSIVE ToIntAcc(_, _, _, _)
ToIntAcc(s, i, j, acc) ==
  IF i >= j THEN acc ELSE ToIntAcc(s, i + 1, j, acc * 10 + DigitVal[s[i]])

\* int(s[i:j])
ToInt(s, i, j) == ToIntAcc(s, i, j, 0)

\* re.search: the leftmost start position at which M(i) holds, 0 when none
Search(s, M(_)) ==
  LET hits == {i \in 1..Len(s) : M(i)}
  IN  IF hits = {} THEN 0 ELSE Min(hits)


(* ----------------------- pdf_to_json.py: parse_line -------------------- *)
\* unit tokens, in lower case (the patterns are compiled with re.IGNORECASE)
U_vt == <<"cy_v","cy_t">>
U_w == <<"w">>
U_lm_cyr == <<"cy_l","cy_m">>
U_lm == <<"l","m">>
U_mm_cyr == <<"cy_m","cy_m">>
U_mm == <<"m","m">>
U_kg_cyr == <<"cy_k","cy_g">>
U_kg == <<"k","g">>
U_let == <<"cy_l","cy_e","cy_t">>
U_goda == <<"cy_g","cy_o","cy_d","cy_a">>
U_g == <<"cy_g">>
L_ip == <<"i","p">>
L_entech == <<"e","n","t","e","c","h">>
L_nrg == <<"N","R","G">>

\* the vocabulary of parse_line, in list order
categories ==
  << <<"cy_p","cy_r","cy_o","cy_m","cy_y","cy_sh","cy_l","cy_e","cy_n","cy_n","cy_y","cy_j">>,
     <<"cy_u","cy_l","cy_i","cy_ch","cy_n","cy_y","cy_j">>,
     <<"cy_o","cy_f","cy_i","cy_s","cy_n","cy_y","cy_j">>,
     <<"cy_s","cy_p","cy_o","cy_r","cy_t","cy_i","cy_v","cy_n","cy_y","cy_j">>,
     <<"cy_v","cy_z","cy_r","cy_y","cy_v","cy_o","cy_z","cy_a","cy_shch","cy_i","cy_shch","cy_e","cy_n","cy_n","cy_y","cy_j">>,
     <<"cy_p","cy_r","cy_o","cy_zh","cy_e","cy_k","cy_t","cy_o","cy_r">> >>

\* (\d+)\s?(u1|u2|...) matches at position i of the case-folded text
NumUnitAt(low, i, units) ==
  /\ IsDigit(low[i])
  /\ LET k == SkipOneSpace(low, DigitsEnd(low, i))
     IN  \E u \in units : LitAt(low, k, u)

\* the integer of group 1 of the leftmost match of (\d+)\s?(units), or None
NumUnit(low, units) ==
  LET i == Search(low, LAMBDA p : NumUnitAt(low, p, units))
  IN  IF i = 0 THEN None ELSE Some(ToInt(low, i, DigitsEnd(low, i)))

\* re.search(r'(\d+)\s?(Вт|W)', line, re.IGNORECASE)
LinePower(line) == NumUnit(StrLower(line), {U_vt, U_w})

\* re.search(r'(\d+)\s?(лм|lm)', line, re.IGNORECASE)
LineLumens(line) == NumUnit(StrLower(line), {U_lm_cyr, U_lm})

IpAt(low, i) ==
  /\ LitAt(low, i, L_ip)
  /\ i + 3 <= Len(low)
  /\ IsDigit(low[i + 2])
  /\ IsDigit(low[i + 3])

\* re.search(r'(IP\d{2})', line, re.IGNORECASE), group(1).upper()
LineIp(line) ==
  LET low == StrLower(line)
      i == Search(line, LAMBDA p : IpAt(low, p))
  IN  IF i = 0 THEN None ELSE Some(StrUpper(SubSeq(line, i, i + 3)))

RECURSIVE FirstCategory(_, _)
FirstCategory(low, n) ==
  IF n > Len(categories) THEN None
  ELSE IF Contains(low, StrLower(categories[n])) THEN Some(categories[n])
  ELSE FirstCategory(low, n + 1)

\* the mutation of LineCategory that lets the position in the text decide
LineCategoryByTextPosition(line) ==
  LET low == StrLower(line)
      pos(n) == Search(low, LAMBDA p : LitAt(low, p, StrLower(categories[n])))
      hit == {n \in 1..Len(categories) : pos(n) # 0}
  IN  IF hit = {} THEN None
      ELSE Some(categories[CHOOSE n \in hit : \A m \in hit : pos(n) <= pos(m)])

\* for cat in categories: if cat.lower() in line.lower(): category = cat; break
LineCategory(line) == FirstCategory(StrLower(line), 1)

\* re.search(r'(ENTECH[^\s,]*)', line, re.IGNORECASE)
LineModel(line) ==
  LET low == StrLower(line)
      i == Search(line, LAMBDA p : LitAt(low, p, L_entech))
      stop == {j \in (i + 6)..Len(line) : IsSpace(line[j]) \/ line[j] = ","}
      e == IF stop = {} THEN Len(line) + 1 ELSE Min(stop)
  IN  IF i = 0 THEN None ELSE Some(SubSeq(line, i, e - 1))

IsSep(c) == c \in {"x", "MULT"}

\* (\d+)[x×](\d+)[x×](\d+)\s?(мм|mm) matches at position i
SizeAt(low, i) ==
  /\ IsDigit(low[i])
  /\ LET j1 == DigitsEnd(low, i)
     IN  /\ j1 + 1 <= Len(low)
         /\ IsSep(low[j1])
         /\ IsDigit(low[j1 + 1])
         /\ LET j2 == DigitsEnd(low, j1 + 1)
            IN  /\ j2 + 1 <= Len(low)
                /\ IsSep(low[j2])
                /\ IsDigit(low[j2 + 1])
                /\ LET k == SkipOneSpace(low, DigitsEnd(low, j2 + 1))
                   IN  LitAt(low, k, U_mm_cyr) \/ LitAt(low, k, U_mm)

\* three numbers without the unit token (the pattern of the mutation below)
SizeNoUnitAt(low, i) ==
  /\ IsDigit(low[i])
  /\ LET j1 == DigitsEnd(low, i)
     IN  /\ j1 + 1 <= Len(low)
         /\ IsSep(low[j1])
         /\ IsDigit(low[j1 + 1])
         /\ LET j2 == DigitsEnd(low, j1 + 1)
            IN  /\ j2 + 1 <= Len(low)
                /\ IsSep(low[j2])
                /\ IsDigit(low[j2 + 1])

\* the mutation of LineDimensions that does not ask for the unit token
LineDimensionsNoUnit(line) ==
  LET low == StrLower(line)
      i == Search(low, LAMBDA p : SizeNoUnitAt(low, p))
      j1 == DigitsEnd(low, i)
      j2 == DigitsEnd(low, j1 + 1)
      j3 == DigitsEnd(low, j2 + 1)
  IN  IF i = 0 THEN None
      ELSE Some([length_mm |-> ToInt(low, i, j1),
                 width_mm  |-> ToInt(low, j1 + 1, j2),
                 height_mm |-> ToInt(low, j2 + 1, j3)])

\* re.search(r'(\d+)[x×](\d+)[x×](\d+)\s?(мм|mm)', line, re.IGNORECASE)
LineDimensions(line) ==
  LET low == StrLower(line)
      i == Search(low, LAMBDA p : SizeAt(low, p))
      j1 == DigitsEnd(low, i)
      j2 == DigitsEnd(low, j1 + 1)
      j3 == DigitsEnd(low, j2 + 1)
  IN  IF i = 0 THEN None
      ELSE Some([length_mm |-> ToInt(low, i, j1),
                 width_mm  |-> ToInt(low, j1 + 1, j2),
                 height_mm |-> ToInt(low, j2 + 1, j3)])

\* end of (\d+([.,]\d+)?) started at i
DecimalEnd(low, i) ==
  LET j == DigitsEnd(low, i)
  IN  IF j + 1 <= Len(low) /\ low[j] \in {".", ","} /\ IsDigit(low[j + 1])
        THEN DigitsEnd(low, j + 1) ELSE j

WeightAt(low, i) ==
  /\ IsDigit(low[i])
  /\ LET k == SkipOneSpace(low, DecimalEnd(low, i))
     IN  LitAt(low, k, U_kg_cyr) \/ LitAt(low, k, U_kg)

\* float(group(1).replace(",", ".")): the whole part and the fraction digits
LineWeight(line) ==
  LET low == StrLower(line)
      i == Search(low, LAMBDA p : WeightAt(low, p))
      j == DigitsEnd(low, i)
      e == DecimalEnd(low, i)
  IN  IF i = 0 THEN None
      ELSE Some([whole |-> ToInt(low, i, j),
                 frac  |-> IF e = j THEN <<>> ELSE SubSeq(low, j + 1, e - 1)])

\* (\d+)\s?(лет|года|г.) matches at position i
WarrantyAt(low, i) ==
  /\ IsDigit(low[i])
  /\ LET k == SkipOneSpace(low, DigitsEnd(low, i))
     IN  \/ LitAt(low, k, U_let)
         \/ LitAt(low, k, U_goda)
         \/ LitAt(low, k, U_g) /\ k + 1 <= Len(low) /\ low[k + 1] # "LF"

LineWarranty(line) ==
  LET low == StrLower(line)
      i == Search(low, LAMBDA p : WarrantyAt(low, p))
  IN  IF i = 0 THEN None ELSE Some(ToInt(low, i, DigitsEnd(low, i)))

LineRaw(line) == Strip(line)

parse_line(line) ==
  [raw            |-> LineRaw(line),
   model          |-> LineModel(line),
   power_w        |-> LinePower(line),
   lumens         |-> LineLumens(line),
   ip_rating      |-> LineIp(line),
   category       |-> LineCategory(line),
   dimensions_mm  |-> LineDimensions(line),
   weight_kg      |-> LineWeight(line),
   warranty_years |-> LineWarranty(line)]

\* re.search(r'(Вт|W|лм|lm|IP\d{2})', line, re.IGNORECASE)
HasUnitToken(line) ==
  LET low == StrLower(line)
  IN  \E p \in 1..Len(low) :
        \/ LitAt(low, p, U_vt) \/ LitAt(low, p, U_w)
        \/ LitAt(low, p, U_lm_cyr) \/ LitAt(low, p, U_lm)
        \/ IpAt(low, p)

\* text.split("\n")
RECURSIVE SplitLines(_)
SplitLines(text) ==
  LET nl == {i \in 1..Len(text) : text[i] = "LF"}
  IN  IF nl = {} THEN <<text>>
      ELSE <<SubSeq(text, 1, Min(nl) - 1)>>
             \o SplitLines(SubSeq(text, Min(nl) + 1, Len(text)))

\* the records one page adds to the catalog
RECURSIVE PageItems(_, _)
PageItems(lines, n) ==
  IF n > Len(lines) THEN <<>>
  ELSE (IF HasUnitToken(lines[n]) THEN <<parse_line(lines[n])>> ELSE <<>>)
         \o PageItems(lines, n + 1)

(* ----------------------- excel_to_json.py: parse_sheet ----------------- *)
RawPreviewLength == 200

\* (\d+)\s*unit matches at position i of the lower-cased text
NumUnitStarAt(low, i, unit) ==
  /\ IsDigit(low[i])
  /\ LitAt(low, SkipSpaces(low, DigitsEnd(low, i)), unit)

NumUnitStar(low, unit) ==
  LET i == Search(low, LAMBDA p : NumUnitStarAt(low, p, unit))
  IN  IF i = 0 THEN None ELSE Some(ToInt(low, i, DigitsEnd(low, i)))

\* re.search(r'(\d+)\s*вт', specs_lower)
SheetPower(specs) == NumUnitStar(StrLower(specs), U_vt)

\* re.search(r'(\d+)\s*лм', specs_lower)
SheetLumens(specs) == NumUnitStar(StrLower(specs), U_lm_cyr)

\* re.search(r'ip(\d{2})', specs_lower), f"IP{ip}"
SheetIp(specs) ==
  LET low == StrLower(specs)
      i == Search(low, LAMBDA p : IpAt(low, p))
  IN  IF i = 0 THEN None ELSE Some(<<"I", "P">> \o SubSeq(low, i + 2, i + 3))

\* category = sheet_name.lower()
SheetCategory(sheet_name) == StrLower(sheet_name)

\* re.sub(r'[\W]+', '-', s)
RECURSIVE Sanitize(_)
Sanitize(t) ==
  IF t = <<>> THEN <<>>
  ELSE IF IsWord(Head(t)) THEN <<Head(t)>> \o Sanitize(Tail(t))
  ELSE LET rest == {j \in 1..Len(t) : IsWord(t[j])}
       IN  <<"-">> \o (IF rest = {} THEN <<>>
                       ELSE Sanitize(SubSeq(t, Min(rest), Len(t))))

UrlPrefix == <<"h","t","t","p","s",":","/","/","e","n","e","-","r","g","y",".","r","u","/","i","m","a","g","e","s","/">>
UrlSuffix == <<".","j","p","g">>

ImageUrl(model) == UrlPrefix \o Sanitize(StrLower(model)) \o UrlSuffix

\* "raw": specs[:200]
SheetRaw(specs) == Prefix(specs, RawPreviewLength)

\* a cell is falsy: None or the empty string
Falsy(cell) == IsNone(cell) \/ Get(cell) = <<>>

\* the row passes both `continue` guards of the loop
RowAccepted(r) ==
  /\ Len(r) >= 3
  /\ ~Falsy(r[1])
  /\ Strip(Get(r[1])) # <<>>
  /\ Contains(StrUpper(Strip(Get(r[1]))), L_nrg)

\* the item the loop body appends for an accepted row
RowItem(r, sheet_name) ==
  LET model == Strip(Get(r[1]))
      specs == IF IsNone(r[3]) THEN <<>> ELSE Get(r[3])
  IN  [model     |-> Some(model),
       name      |-> Some(model),
       power_w   |-> SheetPower(specs),
       lumens    |-> SheetLumens(specs),
       ip_rating |-> SheetIp(specs),
       category  |-> Some(SheetCategory(sheet_name)),
       image_url |-> ImageUrl(model),
       raw       |-> SheetRaw(specs)]

\* iter_rows(min_row=2): the rows from the second on
RECURSIVE SheetItems(_, _, _)
SheetItems(rows, n, sheet_name) ==
  IF n > Len(rows) THEN <<>>
  ELSE (IF RowAccepted(rows[n]) THEN <<RowItem(rows[n], sheet_name)>> ELSE <<>>)
         \o SheetItems(rows, n + 1, sheet_name)

parse_sheet(ws, sheet_name) == SheetItems(ws, 2, sheet_name)

(* ----------------------- excel_to_json.py: excel_to_json -------------- *)
\* the mutation of the deduplication that keeps the first value of a key
RECURSIVE DedupeKeepFirstAcc(_, _, _)
DedupeKeepFirstAcc(items, n, acc) ==
  IF n > Len(items) THEN acc
  ELSE DedupeKeepFirstAcc(items, n + 1,
         IF \E i \in 1..Len(acc) : acc[i].model = items[n].model
           THEN acc ELSE Append(acc, items[n]))

DedupeKeepFirst(items) == DedupeKeepFirstAcc(items, 1, <<>>)

\* {item['model']: item for item in catalog}.values(): a dict keeps the
\* position of a key's first insertion and the value of its last assignment
RECURSIVE DictValuesAcc(_, _, _)
DictValuesAcc(items, n, acc) ==
  IF n > Len(items) THEN acc
  ELSE LET hit == {i \in 1..Len(acc) : acc[i].model = items[n].model}
       IN  DictValuesAcc(items, n + 1,
             IF hit = {} THEN Append(acc, items[n])
             ELSE [acc EXCEPT ![Min(hit)] = items[n]])

Dedupe(items) == DictValuesAcc(items, 1, <<>>)

(* ------------------------------- inputs -------------------------------- *)
\* all sequences over S of length at most n
SeqsUpTo(S, n) == UNION {[1..k -> S] : k \in 0..n}

RECURSIVE Flatten(_)
Flatten(ss) == IF ss = <<>> THEN <<>> ELSE Head(ss) \o Flatten(Tail(ss))

\* a filler longer than half the preview length
Pad == [i \in 1..(RawPreviewLength \div 2 + 1) |-> "a"]

\* fragments the input texts are concatenated from, by subject
FragsPower ==
  {<<"1","0">>,
   <<"5">>,
   <<" ">>,
   <<"W">>,
   <<"w">>,
   <<"CY_V","cy_t">>,
   <<"CY_V","CY_T">>}
FragsDims ==
  {<<"6","x","2","x","1">>,
   <<"6","MULT","2">>,
   <<"x","3">>,
   <<" ","cy_m","cy_m">>,
   <<"cy_m","cy_m">>,
   <<"M","M">>,
   <<"5","W">>,
   <<" ">>}
FragsCategory ==
  {<<"cy_u","cy_l","cy_i","cy_ch","cy_n","cy_y","cy_j">>,
   <<"CY_P","CY_R","CY_O","CY_M","CY_Y","CY_SH","CY_L","CY_E","CY_N","CY_N","CY_Y","CY_J">>,
   <<"cy_p","cy_r","cy_o","cy_zh","cy_e","cy_k","cy_t","cy_o","cy_r">>,
   <<"CY_O","cy_f","cy_i","cy_s","cy_n","cy_y","cy_j">>,
   <<" ">>,
   <<"5","W">>}
FragsModel ==
  {<<"E","N","T","E","C","H">>,
   <<"e","n","t","e","c","h","-","p","r","o">>,
   <<"-","1","0","0">>,
   <<",">>,
   <<" ">>,
   <<"5","W">>,
   <<"LF">>}
FragsMisc ==
  {<<"i","p","6","5">>,
   <<"1","2","l","m">>,
   <<"1",",","5","cy_k","cy_g">>,
   <<"5"," ","cy_l","cy_e","cy_t">>,
   <<"3","cy_g">>}
FragsLong == {Pad, <<" ">>, <<"5","W">>, <<"N","R","G">>}

Families == {FragsPower, FragsDims, FragsCategory, FragsModel, FragsMisc, FragsLong}

Texts == UNION {{Flatten(f) : f \in SeqsUpTo(F, MaxFrags)} : F \in Families}

MODEL_NAME == <<"N","R","G","-","T","R","A","D","E","-","2","0","-","1","0","0","0">>
PaddedB == <<" ","n","r","g","-","b"," ">>
T_50 == <<"5","0"," ","CY_V","cy_t">>
T_80 == <<"8","0"," ","CY_V","cy_t">>
NoNrg == <<"A","B","C">>
Blank == <<" ", " ">>
SheetNames == << <<"CY_U","cy_l","cy_i","cy_ch","cy_n","cy_y","cy_e">>, <<"S","h","e","e","t","2">> >>
Header == <<Some(<<"M","o","d","e","l">>), None, Some(<<"S","p","e","c","s">>)>>

\* workbooks of one data row whose spec cell is any text
RichWorkbooks ==
  {<< [name |-> SheetNames[1],
       rows |-> <<Header, <<Some(MODEL_NAME), None, Some(t)>> >>] >> : t \in Texts}

\* data rows of the first sheet and of the second
RowsFirst ==
  {<<Some(MODEL_NAME), None, Some(T_50)>>, <<Some(MODEL_NAME), None, Some(T_80)>>,
   <<Some(PaddedB), None, Some(T_50)>>, <<None, None, Some(T_50)>>,
   <<Some(NoNrg), None, None>>, <<Some(Blank), None, Some(T_80)>>,
   <<Some(MODEL_NAME), None>>}
RowsSecond ==
  {<<Some(MODEL_NAME), None, Some(T_80)>>, <<Some(PaddedB), None, Some(T_80)>>}

\* workbooks of two sheets of at most MaxRows data rows each
TableWorkbooks ==
  {<< [name |-> SheetNames[1], rows |-> <<Header>> \o r1],
      [name |-> SheetNames[2], rows |-> <<Header>> \o r2] >> :
     r1 \in SeqsUpTo(RowsFirst, MaxRows), r2 \in SeqsUpTo(RowsSecond, MaxRows)}

\* pdf documents: one page of any text, or pages without text
PdfDocuments ==
  {<<Some(t)>> : t \in Texts} \cup {<<None>>, <<None, Some(T_50)>>, <<Some(<<>>), Some(T_80)>>}

\* column A of the active sheet: four header rows, then at most MaxRows cells
ColumnsA ==
  {<<None, None, None, None>> \o c :
     c \in SeqsUpTo({None, Some(MODEL_NAME), Some(PaddedB)}, MaxRows)}

\* the images of the sheet: anchored to a cell (row and column from 0) or
\* absolute (no _from); readable says whether the payload can be decoded
AnchorKinds ==
  {[kind |-> "cell", row |-> 4, col |-> 1, readable |-> TRUE],
   [kind |-> "cell", row |-> 4, col |-> 1, readable |-> FALSE],
   [kind |-> "cell", row |-> 4, col |-> 2, readable |-> TRUE],
   [kind |-> "cell", row |-> 5, col |-> 1, readable |-> TRUE],
   [kind |-> "absolute", row |-> 0, col |-> 0, readable |-> TRUE]}

AnchorLists == SeqsUpTo(AnchorKinds, MaxAnchors)

(* ------------------------------ initial state -------------------------- *)
\* before the first statement of a script: nothing read, nothing written
Fresh ==
  /\ pc = "start"
  /\ error = "none"
  /\ sheetIdx = 0
  /\ pageIdx = 0
  /\ row = 0
  /\ image = None
  /\ files = {}
  /\ catalog = <<>>
  /\ outJson = None
  /\ kpResult = None

InitExcel ==
  /\ script = "excel_to_json"
  /\ \/ source = "ok" /\ workbook \in RichWorkbooks \cup TableWorkbooks
     \/ source \in {"missing", "corrupt"} /\ workbook = <<>>
  /\ pdfPages = <<>> /\ sheetA = <<>> /\ anchors = <<>>
  /\ Fresh

InitPdf ==
  /\ script = "pdf_to_json"
  /\ \/ source = "ok" /\ pdfPages \in PdfDocuments
     \/ source \in {"missing", "corrupt"} /\ pdfPages = <<>>
  /\ workbook = <<>> /\ sheetA = <<>> /\ anchors = <<>>
  /\ Fresh

InitSheet ==
  /\ script \in {"extract_catalog", "extract_catalog_base64", "extract_full_kp"}
  /\ \/ source = "ok" /\ sheetA \in ColumnsA /\ anchors \in AnchorLists
     \/ source \in {"missing", "corrupt"} /\ sheetA = <<>> /\ anchors = <<>>
  /\ workbook = <<>> /\ pdfPages = <<>>
  /\ Fresh

Init == InitExcel \/ InitPdf \/ InitSheet

(* ----------------------- excel_to_json.py: excel_to_json -------------- *)
\* if not Path(excel_path).exists(): ... return
ExcelCheckPath ==
  /\ script = "excel_to_json" /\ pc = "start"
  /\ IF source = "missing"
       THEN pc' = "done" /\ error' = "not_found"
       ELSE pc' = "load" /\ error' = error
  /\ UNCHANGED <<script, source, workbook, sheetIdx, pdfPages, pageIdx, sheetA,
                 anchors, row, image, files, catalog, outJson, kpResult>>

\* wb = openpyxl.load_workbook(...); an exception is caught by the except clause
ExcelLoad ==
  /\ script = "excel_to_json" /\ pc = "load"
  /\ IF source = "corrupt"
       THEN pc' = "done" /\ error' = "load_error" /\ sheetIdx' = sheetIdx
       ELSE pc' = "sheets" /\ error' = error /\ sheetIdx' = 1
  /\ UNCHANGED <<script, source, workbook, pdfPages, pageIdx, sheetA,
                 anchors, row, image, files, catalog, outJson, kpResult>>

\* one iteration of `for sheet_name in wb.sheetnames`
ExcelParseSheet ==
  /\ script = "excel_to_json" /\ pc = "sheets"
  /\ sheetIdx <= Len(workbook)
  /\ catalog' = catalog \o parse_sheet(workbook[sheetIdx].rows, workbook[sheetIdx].name)
  /\ sheetIdx' = sheetIdx + 1
  /\ UNCHANGED <<script, pc, error, source, workbook, pdfPages, pageIdx, sheetA,
                 anchors, row, image, files, outJson, kpResult>>

\* unique_items = ...; json.dump(list(unique_items), f, ...)
ExcelWrite ==
  /\ script = "excel_to_json" /\ pc = "sheets"
  /\ sheetIdx > Len(workbook)
  /\ outJson' = Some(Dedupe(catalog))
  /\ pc' = "done"
  /\ UNCHANGED <<script, error, source, workbook, sheetIdx, pdfPages, pageIdx,
                 sheetA, anchors, row, image, files, catalog, kpResult>>

(* ----------------------- pdf_to_json.py: pdf_to_json ------------------- *)
\* with pdfplumber.open(pdf_path) as pdf: an exception ends the script
PdfOpen ==
  /\ script = "pdf_to_json" /\ pc = "start"
  /\ IF source = "ok"
       THEN pc' = "pages" /\ error' = error /\ pageIdx' = 1
       ELSE pc' = "aborted" /\ error' = "load_error" /\ pageIdx' = pageIdx
  /\ UNCHANGED <<script, source, workbook, sheetIdx, pdfPages, sheetA,
                 anchors, row, image, files, catalog, outJson, kpResult>>

\* one iteration of `for page in pdf.pages`
PdfPage ==
  /\ script = "pdf_to_json" /\ pc = "pages"
  /\ pageIdx <= Len(pdfPages)
  /\ catalog' = IF Falsy(pdfPages[pageIdx]) THEN catalog
                ELSE catalog \o PageItems(SplitLines(Get(pdfPages[pageIdx])), 1)
  /\ pageIdx' = pageIdx + 1
  /\ UNCHANGED <<script, pc, error, source, workbook, sheetIdx, pdfPages, sheetA,
                 anchors, row, image, files, outJson, kpResult>>

\* json.dump(catalog, f, ...)
PdfDump ==
  /\ script = "pdf_to_json" /\ pc = "pages"
  /\ pageIdx > Len(pdfPages)
  /\ outJson' = Some(catalog)
  /\ pc' = "done"
  /\ UNCHANGED <<script, error, source, workbook, sheetIdx, pdfPages, pageIdx,
                 sheetA, anchors, row, image, files, catalog, kpResult>>

(* ------------- extract_catalog.py, extract_catalog_base64.py ----------- *)
FirstDataRow == 5
ImageColumn == 1

\* img.anchor._from.row == row - 1 and img.anchor._from.col == 1
CatalogAnchorHit(a, r) == a.row = r - 1 /\ a.col = ImageColumn

\* `for img in ws._images`: the index of the anchor at which the loop stops,
\* 0 when it runs to the end. An absolute anchor has no _from: reading it
\* raises AttributeError, which also ends the loop.
CatalogScan(as, r) ==
  LET stop == {k \in 1..Len(as) :
                 as[k].kind = "absolute" \/ CatalogAnchorHit(as[k], r)}
  IN  IF stop = {} THEN 0 ELSE Min(stop)

\* os.path.join(output_dir, f"{model}.png")
ImagePath(model) == [dir |-> "images", name |-> model, ext |-> "png"]

\* "data:image/png;base64," + base64.b64encode(...).decode()
DataUri(k) == [mime |-> "image/png", payload |-> k]

\* the file at path p holds the payload of image k
SaveFile(fs, p, k) == {f \in fs : f.path # p} \cup {[path |-> p, data |-> k]}

CatalogItem(model, img) ==
  [model |-> model, description |-> None, price_retail |-> None,
   price_wholesale |-> None, image |-> img]

Base64Item(model, img) ==
  [model |-> model, description |-> None, price_retail |-> None,
   price_wholesale |-> None, image_base64 |-> img]

\* wb = openpyxl.load_workbook(...); ws = wb.active; os.makedirs(...); catalog = []
CatalogLoad ==
  /\ script = "extract_catalog" /\ pc = "start"
  /\ IF source = "ok"
       THEN pc' = "rows" /\ error' = error /\ row' = FirstDataRow
       ELSE pc' = "aborted" /\ error' = "load_error" /\ row' = row
  /\ UNCHANGED <<script, source, workbook, sheetIdx, pdfPages, pageIdx, sheetA,
                 anchors, image, files, catalog, outJson, kpResult>>

\* one iteration of `for row in range(5, ws.max_row + 1)`
CatalogRow ==
  /\ script = "extract_catalog" /\ pc = "rows"
  /\ row <= Len(sheetA)
  /\ LET model == sheetA[row]
         k == CatalogScan(anchors, row)
         path == ImagePath(Get(model))
     IN  IF Falsy(model)
           THEN /\ row' = row + 1
                /\ UNCHANGED <<pc, error, image, files, catalog>>
         ELSE IF k = 0
           THEN /\ row' = row + 1
                /\ image' = None
                /\ catalog' = Append(catalog, CatalogItem(model, None))
                /\ UNCHANGED <<pc, error, files>>
         ELSE IF anchors[k].kind = "absolute"
           THEN /\ pc' = "aborted" /\ error' = "anchor_error"
                /\ image' = None
                /\ UNCHANGED <<row, files, catalog>>
         ELSE IF anchors[k].readable
           THEN /\ row' = row + 1
                /\ image' = Some(path)
                /\ files' = SaveFile(files, path, k)
                /\ catalog' = Append(catalog, CatalogItem(model, Some(path)))
                /\ UNCHANGED <<pc, error>>
         ELSE   \* img.image.save(img_path) raises, nothing catches it
                /\ pc' = "aborted" /\ error' = "image_error"
                /\ image' = Some(path)
                /\ UNCHANGED <<row, files, catalog>>
  /\ UNCHANGED <<script, source, workbook, sheetIdx, pdfPages, pageIdx, sheetA,
                 anchors, outJson, kpResult>>

\* json.dump(catalog, f, ...)
CatalogDump ==
  /\ script = "extract_catalog" /\ pc = "rows"
  /\ row > Len(sheetA)
  /\ outJson' = Some(catalog)
  /\ pc' = "done"
  /\ UNCHANGED <<script, error, source, workbook, sheetIdx, pdfPages, pageIdx,
                 sheetA, anchors, row, image, files, catalog, kpResult>>

Base64Load ==
  /\ script = "extract_catalog_base64" /\ pc = "start"
  /\ IF source = "ok"
       THEN pc' = "rows" /\ error' = error /\ row' = FirstDataRow
       ELSE pc' = "aborted" /\ error' = "load_error" /\ row' = row
  /\ UNCHANGED <<script, source, workbook, sheetIdx, pdfPages, pageIdx, sheetA,
                 anchors, image, files, catalog, outJson, kpResult>>

\* one iteration of the row loop; the decoding is inside try/except
Base64Row ==
  /\ script = "extract_catalog_base64" /\ pc = "rows"
  /\ row <= Len(sheetA)
  /\ LET model == sheetA[row]
         k == CatalogScan(anchors, row)
         img == IF k # 0 /\ anchors[k].readable THEN Some(DataUri(k)) ELSE None
     IN  IF Falsy(model)
           THEN /\ row' = row + 1
                /\ UNCHANGED <<pc, error, image, catalog>>
         ELSE IF k # 0 /\ anchors[k].kind = "absolute"
           THEN /\ pc' = "aborted" /\ error' = "anchor_error"
                /\ image' = None
                /\ UNCHANGED <<row, catalog>>
         ELSE   /\ row' = row + 1
                /\ image' = img
                /\ catalog' = Append(catalog, Base64Item(model, img))
                /\ UNCHANGED <<pc, error>>
  /\ UNCHANGED <<script, source, workbook, sheetIdx, pdfPages, pageIdx, sheetA,
                 anchors, files, outJson, kpResult>>

Base64Dump ==
  /\ script = "extract_catalog_base64" /\ pc = "rows"
  /\ row > Len(sheetA)
  /\ outJson' = Some(catalog)
  /\ pc' = "done"
  /\ UNCHANGED <<script, error, source, workbook, sheetIdx, pdfPages, pageIdx,
                 sheetA, anchors, row, image, files, catalog, kpResult>>

(* ----------------- extract_full_kp.py: extract_product_data ------------ *)
MinRowKp == 2
OUTPUT_PNG == [dir |-> ".", name |-> <<"t","e","m","p">>, ext |-> "png"]

\* hasattr(img.anchor, "_from") and img.anchor._from.row + 1 == target_row
KpAnchorHit(a, target_row) == a.kind = "cell" /\ a.row + 1 = target_row

KpScan(as, target_row) ==
  LET hit == {k \in 1..Len(as) : KpAnchorHit(as[k], target_row)}
  IN  IF hit = {} THEN 0 ELSE Min(hit)

\* the first row from min_row=2 with a cell that contains model_name, or 0
KpTargetRow(cells, model_name) ==
  LET hit == {r \in MinRowKp..Len(cells) :
                ~Falsy(cells[r]) /\ Contains(Get(cells[r]), model_name)}
  IN  IF hit = {} THEN 0 ELSE Min(hit)

KpLoad ==
  /\ script = "extract_full_kp" /\ pc = "start"
  /\ IF source = "ok"
       THEN pc' = "find" /\ error' = error
       ELSE pc' = "aborted" /\ error' = "load_error"
  /\ UNCHANGED <<script, source, workbook, sheetIdx, pdfPages, pageIdx, sheetA,
                 anchors, row, image, files, catalog, outJson, kpResult>>

\* the search for the row of the model; raise ValueError when there is none
KpFind ==
  /\ script = "extract_full_kp" /\ pc = "find"
  /\ LET t == KpTargetRow(sheetA, MODEL_NAME)
     IN  IF t = 0
           THEN pc' = "aborted" /\ error' = "model_not_found" /\ row' = row
           ELSE pc' = "image" /\ error' = error /\ row' = t
  /\ UNCHANGED <<script, source, workbook, sheetIdx, pdfPages, pageIdx, sheetA,
                 anchors, image, files, catalog, outJson, kpResult>>

\* the image loop and the return; PIL's open or save may raise
KpImage ==
  /\ script = "extract_full_kp" /\ pc = "image"
  /\ LET k == KpScan(anchors, row)
     IN  IF k = 0
           THEN /\ image' = None
                /\ kpResult' = Some([row_data |-> <<sheetA[row]>>, img_path |-> None])
                /\ pc' = "done"
                /\ UNCHANGED <<error, files>>
         ELSE IF anchors[k].readable
           THEN /\ image' = Some(OUTPUT_PNG)
                /\ files' = SaveFile(files, OUTPUT_PNG, k)
                /\ kpResult' = Some([row_data |-> <<sheetA[row]>>,
                                     img_path |-> Some(OUTPUT_PNG)])
                /\ pc' = "done"
                /\ UNCHANGED error
         ELSE   /\ pc' = "aborted" /\ error' = "image_error"
                /\ UNCHANGED <<image, files, kpResult>>
  /\ UNCHANGED <<script, source, workbook, sheetIdx, pdfPages, pageIdx, sheetA,
                 anchors, row, catalog, outJson>>

(* ------------------------------ specification -------------------------- *)
Next ==
  \/ ExcelCheckPath \/ ExcelLoad \/ ExcelParseSheet \/ ExcelWrite
  \/ PdfOpen \/ PdfPage \/ PdfDump
  \/ CatalogLoad \/ CatalogRow \/ CatalogDump
  \/ Base64Load \/ Base64Row \/ Base64Dump
  \/ KpLoad \/ KpFind \/ KpImage

Spec == Init /\ [][Next]_vars

(* ============================== claims ================================= *)
Max(S) == CHOOSE m \in S : \A n \in S : n <= m
Models(items) == {items[i].model : i \in 1..Len(items)}
FirstPos(items, m) == Min({i \in 1..Len(items) : items[i].model = m})
LastPos(items, m) == Max({i \in 1..Len(items) : items[i].model = m})
DistinctModels(items) ==
  \A i, j \in 1..Len(items) : i # j => items[i].model # items[j].model

ExcelDone == script = "excel_to_json" /\ pc = "done" /\ ~IsNone(outJson)

\* C1: in excel_to_json the written collection holds exactly one record per
\* model key of the assembled catalog; the record of a key is the one of the
\* key's last occurrence, and the records are ordered by the keys' first
\* occurrences.
C1_FirstPositionLastValue ==
  ExcelDone =>
    LET out == Get(outJson)
    IN  /\ Models(out) = Models(catalog)
        /\ DistinctModels(out)
        /\ \A i \in 1..Len(out) : out[i] = catalog[LastPos(catalog, out[i].model)]
        /\ \A i, j \in 1..Len(out) :
             i < j => FirstPos(catalog, out[i].model) < FirstPos(catalog, out[j].model)

\* a key occurs twice with different values around another key's first occurrence
C1_Witness ==
  /\ ExcelDone
  /\ Len(Get(outJson)) = 2
  /\ \E i, j, k \in 1..Len(catalog) :
       /\ i < j /\ j < k
       /\ catalog[i].model = catalog[k].model
       /\ catalog[j].model # catalog[i].model
       /\ catalog[i].power_w = Some(50)
       /\ catalog[k].power_w = Some(80)
       /\ Get(outJson)[1].power_w = Some(80)

\* C2 (as claimed): in every pipeline the written collection has pairwise
\* distinct model keys and is no longer than the assembled catalog.
C2_UniqueKeysEverywhere ==
  (pc = "done" /\ ~IsNone(outJson)) =>
    /\ DistinctModels(Get(outJson))
    /\ Len(Get(outJson)) <= Len(catalog)

TrimmedNonEmpty(m) == ~IsNone(m) /\ Get(m) # <<>> /\ Strip(Get(m)) = Get(m)

\* C3 (as claimed): every emitted record of every pipeline has a model that is
\* a non-empty, whitespace-trimmed string.
C3_ModelNonEmptyTrimmed ==
  script \in {"excel_to_json", "pdf_to_json", "extract_catalog", "extract_catalog_base64"}
    => \A i \in 1..Len(catalog) : TrimmedNonEmpty(catalog[i].model)

\* C4 (as claimed): a run that ends on a fatal error has written no output
\* artifact at all (no catalog JSON, no image file), and a run that ends
\* without one has written the catalog.
C4_AllOrNothing ==
  /\ (error # "none") => (IsNone(outJson) /\ files = {})
  /\ (pc = "done" /\ error = "none" /\ script # "extract_full_kp") => ~IsNone(outJson)

\* the first anchor in discovery order at row r (from 1) and the image column
FirstBoth(as, r) ==
  LET hit == {k \in 1..Len(as) :
                as[k].kind = "cell" /\ as[k].row = r - 1 /\ as[k].col = ImageColumn}
  IN  IF hit = {} THEN 0 ELSE Min(hit)

FileData(p) == {f.data : f \in {g \in files : g.path = p}}

\* the row loop of a catalog script has just emitted the record of row - 1
RowEmitted ==
  /\ script \in {"extract_catalog", "extract_catalog_base64"}
  /\ pc = "rows" /\ row > FirstDataRow
  /\ ~Falsy(sheetA[row - 1])

\* C5 (as claimed): in the catalog loops and in extract_product_data the image
\* attached to a row is the first anchor at that row AND the image column, and
\* there is no image when no anchor satisfies both.
C5_FirstAnchorAtRowAndColumn ==
  /\ RowEmitted =>
       LET k == FirstBoth(anchors, row - 1)
       IN  /\ k = 0 => IsNone(image)
           /\ (k # 0 /\ anchors[k].readable) =>
                IF script = "extract_catalog"
                  THEN ~IsNone(image) /\ FileData(Get(image)) = {k}
                  ELSE image = Some(DataUri(k))
  /\ (script = "extract_full_kp" /\ pc = "done") =>
       LET k == FirstBoth(anchors, row)
       IN  /\ k = 0 => IsNone(Get(kpResult).img_path)
           /\ (k # 0 /\ anchors[k].readable) => FileData(OUTPUT_PNG) = {k}

\* C6 (as claimed): no run ends because an image cannot be read or saved; the
\* record of such a row is emitted with a null image.
C6_ImageFailureRecovered ==
  /\ error # "image_error"
  /\ RowEmitted =>
       LET k == FirstBoth(anchors, row - 1)
       IN  (k # 0 /\ ~anchors[k].readable) => IsNone(image)

\* C7 (as claimed): the raw preview of every record of parse_sheet and of
\* parse_line is at most 200 characters long.
C7_RawAtMost200 ==
  script \in {"excel_to_json", "pdf_to_json"}
    => \A i \in 1..Len(catalog) : Len(catalog[i].raw) <= RawPreviewLength

AllDigits(t, i, j) == i <= j /\ \A n \in i..j : IsDigit(t[n])

\* an integer, at most one whitespace, and the unit token start at position i
PhraseAt(low, i, j, units) ==
  /\ AllDigits(low, i, j - 1)
  /\ i = 1 \/ ~IsDigit(low[i - 1])
  /\ \E u \in units : LitAt(low, j, u) \/ (j <= Len(low) /\ IsSpace(low[j]) /\ LitAt(low, j + 1, u))

PhraseStarts(low, units) ==
  {i \in 1..Len(low) : IsDigit(low[i]) /\ (i = 1 \/ ~IsDigit(low[i - 1]))
                       /\ PhraseAt(low, i, DigitsEnd(low, i), units)}

\* the integer of the leftmost "<integer><unit>" phrase of the text, or None
ExpectedPower(text) ==
  LET low == StrLower(text)
      st == PhraseStarts(low, {U_vt, U_w})
  IN  IF st = {} THEN None ELSE Some(ToInt(low, Min(st), DigitsEnd(low, Min(st))))

\* the lines parse_line has been applied to, in order
RECURSIVE LinesOfPages(_, _)
LinesOfPages(pages, n) ==
  IF n = 0 THEN <<>>
  ELSE LinesOfPages(pages, n - 1)
         \o (IF Falsy(pages[n]) THEN <<>> ELSE SplitLines(Get(pages[n])))

ParsedLines == SelectSeq(LinesOfPages(pdfPages, pageIdx - 1), HasUnitToken)

PdfRunning == script = "pdf_to_json" /\ pc \in {"pages", "done"}

\* the spec cells of the rows parse_sheet has accepted, in order
RECURSIVE AcceptedSpecs(_, _)
AcceptedSpecs(wb, n) ==
  IF n = 0 THEN <<>>
  ELSE AcceptedSpecs(wb, n - 1)
         \o [i \in 1..Len(SelectSeq(Tail(wb[n].rows), RowAccepted)) |->
               LET r == SelectSeq(Tail(wb[n].rows), RowAccepted)[i]
               IN  [specs |-> IF IsNone(r[3]) THEN <<>> ELSE Get(r[3]),
                    sheet |-> wb[n].name]]

ParsedRows == AcceptedSpecs(workbook, sheetIdx - 1)

ExcelRunning == script = "excel_to_json" /\ pc \in {"sheets", "done"} /\ error = "none"

\* C8 (as claimed): a text with an integer followed by the token Вт or W, in
\* either case, yields that integer as power_w, in parse_line and in parse_sheet.
C8_PowerBothUnits ==
  /\ PdfRunning =>
       \A n \in 1..Len(catalog) :
          ~IsNone(ExpectedPower(ParsedLines[n]))
            => catalog[n].power_w = ExpectedPower(ParsedLines[n])
  /\ ExcelRunning =>
       \A n \in 1..Len(catalog) :
          ~IsNone(ExpectedPower(ParsedRows[n].specs))
            => catalog[n].power_w = ExpectedPower(ParsedRows[n].specs)

\* the first vocabulary term, in list order, that occurs in the text
ExpectedCategory(text) ==
  LET low == StrLower(text)
      hit == {n \in 1..Len(categories) : Contains(low, StrLower(categories[n]))}
  IN  IF hit = {} THEN None ELSE Some(categories[Min(hit)])

DimsPhrase(low, i, j1, j2, j3) ==
  /\ AllDigits(low, i, j1 - 1) /\ IsSep(low[j1])
  /\ AllDigits(low, j1 + 1, j2 - 1) /\ IsSep(low[j2])
  /\ AllDigits(low, j2 + 1, j3 - 1)
  /\ \/ LitAt(low, j3, U_mm_cyr) \/ LitAt(low, j3, U_mm)
     \/ /\ j3 <= Len(low) /\ IsSpace(low[j3])
        /\ LitAt(low, j3 + 1, U_mm_cyr) \/ LitAt(low, j3 + 1, U_mm)

DimsPhrases(low) ==
  {q \in UNION {UNION {UNION {{<<i, j1, j2, j3>> : j3 \in (j2 + 2)..(Len(low) + 1)} :
                                j2 \in {x \in (j1 + 2)..Len(low) : IsSep(low[x])}} :
                         j1 \in {x \in (i + 1)..Len(low) : IsSep(low[x])}} :
                  i \in {x \in 1..Len(low) : IsDigit(low[x])}} :
     DimsPhrase(low, q[1], q[2], q[3], q[4])}

\* C10: parse_line emits dimensions_mm with length_mm, width_mm and height_mm
\* exactly when the line holds three integers separated by x or the
\* multiplication sign and directly followed by the millimetre token (at most
\* one whitespace between); the three values are the integers of such a
\* phrase; otherwise dimensions_mm is null.
C10_DimensionsAllOrNothing ==
  PdfRunning =>
    \A n \in 1..Len(catalog) :
      LET d == catalog[n].dimensions_mm
          low == StrLower(ParsedLines[n])
          ph == DimsPhrases(low)
      IN  /\ IsNone(d) <=> ph = {}
          /\ ~IsNone(d) =>
               /\ DOMAIN Get(d) = {"length_mm", "width_mm", "height_mm"}
               /\ \E q \in ph :
                    /\ Get(d).length_mm = ToInt(low, q[1], q[2])
                    /\ Get(d).width_mm = ToInt(low, q[2] + 1, q[3])
                    /\ Get(d).height_mm = ToInt(low, q[3] + 1, q[4])

\* the line "6x2x1" + millimetre token + "5W" has been parsed
C10_Witness ==
  /\ PdfRunning
  /\ \E n \in 1..Len(catalog) :
       /\ catalog[n].dimensions_mm =
            Some([length_mm |-> 6, width_mm |-> 2, height_mm |-> 1])
       /\ ~IsNone(catalog[n].power_w)

============================================================================
